---- MODULE Spec2Model ----
(***************************************************************************)
(* Parity Boardroom (src/app.py): routing of one user prompt to the Scout, *)
(* Architect and VC directors, the smart router, the VC retry loop and the *)
(* context.md transcript.                                                  *)
(*                                                                         *)
(* Text is a sequence of tokens.  Text that the code inspects character by *)
(* character (the user prompt, the router's raw answer, rules.md) is a     *)
(* sequence of one-character strings; a literal of the code that is only   *)
(* ever concatenated is one token; a provider's answer or error message is *)
(* a sequence of opaque tokens.  Emoji of the literals are left out.       *)
(***************************************************************************)
EXTENDS Naturals, Sequences, FiniteSets, TLC

\* ------------------------------------------------------------------ bounds

\* Chat inputs submitted in one behaviour.
MaxTurns == 2

\* Models the provider's catalog lists at startup.
MaxCatalog == 2

\* ------------------------------------------------------- text primitives

\* Python's `sub in s` on text.
Contains(s, sub) ==
    \/ sub = <<>>
    \/ \E i \in 1..(Len(s) + 1 - Len(sub)) :
          /\ s[i] = sub[1]
          /\ SubSeq(s, i, i + Len(sub) - 1) = sub

LowerChar(c) ==
    CASE c = "A" -> "a" [] c = "C" -> "c" [] c = "E" -> "e" [] c = "H" -> "h"
      [] c = "I" -> "i" [] c = "L" -> "l" [] c = "O" -> "o" [] c = "R" -> "r"
      [] c = "S" -> "s" [] c = "T" -> "t" [] c = "U" -> "u" [] c = "V" -> "v"
      [] OTHER -> c

UpperChar(c) ==
    CASE c = "a" -> "A" [] c = "c" -> "C" [] c = "e" -> "E" [] c = "h" -> "H"
      [] c = "i" -> "I" [] c = "l" -> "L" [] c = "o" -> "O" [] c = "r" -> "R"
      [] c = "s" -> "S" [] c = "t" -> "T" [] c = "u" -> "U" [] c = "v" -> "V"
      [] OTHER -> c

\* str.lower() and str.upper()
Lower(s) == [i \in 1..Len(s) |-> LowerChar(s[i])]
Upper(s) == [i \in 1..Len(s) |-> UpperChar(s[i])]

IsSpace(c) == c \in {" ", "\n", "\t"}

RECURSIVE LStrip(_)
LStrip(s) == IF s # <<>> /\ IsSpace(Head(s)) THEN LStrip(Tail(s)) ELSE s

RECURSIVE RStrip(_)
RStrip(s) ==
    IF s # <<>> /\ IsSpace(s[Len(s)]) THEN RStrip(SubSeq(s, 1, Len(s) - 1)) ELSE s

\* str.strip()
Strip(s) == RStrip(LStrip(s))

\* str.replace("*", "")
RemoveStars(s) == SelectSeq(s, LAMBDA c : c # "*")

\* ------------------------------------------------------------- the inputs

\* Chat inputs the user may type.
P_Scout     == <<"@", "S", "c", "o", "u", "t">>
P_Architect == <<"x", "@", "A", "R", "C", "H", "I", "T", "E", "C", "T">>
P_VC        == <<"a", " ", "@", "v", "C", "!">>
P_VCScout   == <<"@", "v", "c", "@", "s", "c", "o", "u", "t">>
P_VCArch    == <<"@", "V", "C", "@", "a", "r", "c", "h", "i", "t", "e", "c", "t">>
P_ArchVC    == <<"@", "a", "r", "c", "h", "i", "t", "e", "c", "t", " ", "@", "v", "c">>
P_Plain     == <<"v", "c", "?">>

Prompts == {P_Scout, P_Architect, P_VC, P_VCScout, P_VCArch, P_ArchVC, P_Plain}

\* The two options of the "Response Style" radio (lines 78-82).
StyleBrief    == "Executive (Brief)"
StyleDetailed == "Founder (Detailed)"
Styles == {StyleBrief, StyleDetailed}

\* Raw texts the router's model may answer.
RouterAnswers ==
    { <<"S", "C", "O", "U", "T">>,
      <<" ", "*", "*", "A", "r", "c", "h", "i", "t", "e", "c", "t", "*", "*", "\n">>,
      <<"v", "c">>,
      <<"A", "L", "L">>,
      <<"V", "C", ".">>,
      <<"*", "*", " ", "S", "C", "O", "U", "T", " ", "*", "*">>,
      <<"\t", "v", "*", "c", "*", " ">> }

\* rules.md: absent, or present with a text naming SCOUT and VC only.
NoRules   == [exists |-> FALSE, content |-> <<>>]
SomeRules == [exists |-> TRUE,
              content |-> <<"S", "C", "O", "U", "T", ",", "V", "C", ":", "x">>]
RulesFiles == {NoRules, SomeRules}

\* Error messages a provider call may raise with.
E_RateLimit == <<"429", " quota">>
E_Other     == <<"500", " internal">>

\* The client registries init_clients may build (a key is absent when the
\* provider's API key is absent).
ClientSets == SUBSET {"SCOUT", "ARCHITECT", "VC_CLIENT"}

\* The providers whose API key the process may hold (lines 19-23).
Providers == {"GOOGLE", "OPENAI", "XAI"}

\* The key of the registry under which a provider's client is stored
\* (lines 52, 58, 64).
ClientOf(k) ==
    CASE k = "GOOGLE" -> "VC_CLIENT" [] k = "OPENAI" -> "ARCHITECT" [] k = "XAI" -> "SCOUT"

\* The calls of init_clients that may raise (lines 35, 44, 58, 64).
InitCalls == {"configure", "list_models", "OpenAI", "xAI"}

\* Lines 37-42.
Priority ==
    << "models/gemini-3.0-pro", "models/gemini-3-pro",
       "models/gemini-1.5-pro-latest", "models/gemini-1.5-pro" >>

\* The identifier of lines 49, 50 and 88.
FlashModel == "models/gemini-1.5-flash"

\* What genai.list_models() may return: models with their name and whether
\* 'generateContent' is among their supported_generation_methods.
CatalogNames ==
    { "models/gemini-1.5-pro-latest", "models/gemini-1.5-pro",
      "models/gemini-1.5-flash", "models/embedding-001" }

CatalogModels == [name : CatalogNames, generateContent : BOOLEAN]

Catalogs == UNION { [1..n -> CatalogModels] : n \in 0..MaxCatalog }

\* The catalog of the runs that follow startup.
ProCatalog == << [name |-> "models/gemini-1.5-pro", generateContent |-> TRUE] >>

\* ----------------------------------------------------- routing (pure part)

TokScout     == <<"@", "s", "c", "o", "u", "t">>
TokArchitect == <<"@", "a", "r", "c", "h", "i", "t", "e", "c", "t">>
TokVC        == <<"@", "v", "c">>

L_SCOUT     == <<"S", "C", "O", "U", "T">>
L_ARCHITECT == <<"A", "R", "C", "H", "I", "T", "E", "C", "T">>
L_VC        == <<"V", "C">>
L_ALL       == <<"A", "L", "L">>

Roles   == {"SCOUT", "ARCHITECT", "VC"}
Targets == Roles \cup {"ALL"}

\* The override token of a role.
Token(R) ==
    CASE R = "SCOUT" -> TokScout [] R = "ARCHITECT" -> TokArchitect [] R = "VC" -> TokVC

\* The manual override without prompt.lower().
OverrideTargetCaseSensitive(p) ==
    IF Contains(p, TokScout) THEN "SCOUT"
    ELSE IF Contains(p, TokArchitect) THEN "ARCHITECT"
    ELSE IF Contains(p, TokVC) THEN "VC"
    ELSE "NONE"

\* The manual override with its chain in the opposite order.
OverrideTargetVCFirst(p) ==
    IF Contains(Lower(p), TokVC) THEN "VC"
    ELSE IF Contains(Lower(p), TokArchitect) THEN "ARCHITECT"
    ELSE IF Contains(Lower(p), TokScout) THEN "SCOUT"
    ELSE "NONE"

\* Lines 248-250: the if/elif chain of the manual override; "NONE" is its
\* else branch (the router decides).
OverrideTarget(p) ==
    IF Contains(Lower(p), TokScout) THEN "SCOUT"
    ELSE IF Contains(Lower(p), TokArchitect) THEN "ARCHITECT"
    ELSE IF Contains(Lower(p), TokVC) THEN "VC"
    ELSE "NONE"

\* The router's validation without strip().
RouterDecisionNoStrip(raw) ==
    LET decision == RemoveStars(Upper(raw))
    IN  IF decision = L_SCOUT THEN "SCOUT"
        ELSE IF decision = L_ARCHITECT THEN "ARCHITECT"
        ELSE IF decision = L_VC THEN "VC"
        ELSE "ALL"

\* Lines 133-136: resp.text.strip().upper().replace("*", "") and the
\* membership test with its fallback.
RouterDecision(raw) ==
    LET decision == RemoveStars(Upper(Strip(raw)))
    IN  IF decision = L_SCOUT THEN "SCOUT"
        ELSE IF decision = L_ARCHITECT THEN "ARCHITECT"
        ELSE IF decision = L_VC THEN "VC"
        ELSE IF decision = L_ALL THEN "ALL"
        ELSE "ALL"

\* ------------------------------------------------------ directors (pure)

AgentName(R) ==
    CASE R = "SCOUT" -> L_SCOUT [] R = "ARCHITECT" -> L_ARCHITECT [] R = "VC" -> L_VC

\* Lines 144-149, once rules.md was read without an exception.
get_agent_rules(R, file) ==
    IF file.exists
    THEN IF Contains(file.content, AgentName(R))
         THEN <<"\n\n[YOUR TRAINED RULES]:\n">> \o file.content
         ELSE <<>>
    ELSE <<>>

\* Lines 155-158, 178-181, 201-204.
StyleInst(R, style) ==
    CASE R = "SCOUT" ->
            IF style = StyleBrief
            THEN <<"CORE DIRECTIVE: EXTREME BREVITY. Max 150 words. Bullets ONLY.">>
            ELSE <<"CORE DIRECTIVE: DETAILED ANALYSIS. Provide context and reasoning.">>
      [] R = "ARCHITECT" ->
            IF style = StyleBrief
            THEN <<"CORE DIRECTIVE: CODE ONLY. Code Block first. Max 3 sentences explanation.">>
            ELSE <<"CORE DIRECTIVE: TECHNICAL SPEC. Include reasoning and trade-offs.">>
      [] R = "VC" ->
            IF style = StyleBrief
            THEN <<"STYLE: VERDICT (YES/NO) + 1 Bullet Point Reason. Max 50 words.">>
            ELSE <<"STYLE: Detailed Critique, Principles (Lean/Blue Ocean), Risk Analysis.">>

\* ask_scout leaving the trained rules out of the brief instruction.
ScoutRequestBriefDropsRules(p, h, style, growth) ==
    [to     |-> "SCOUT",
     model  |-> "grok-3",
     system |-> <<"You are Scout. History:\n">> \o h \o <<"\n">>
                \o (IF style = StyleBrief THEN <<>> ELSE growth) \o <<"\n\n">>
                \o StyleInst("SCOUT", style) \o <<"\n">>
                \o <<"CITATION REQUIRED: [Link](url) format.">>,
     user   |-> p]

\* Lines 160-164 and 169: the chat request of ask_scout.
ScoutRequest(p, h, style, growth) ==
    [to     |-> "SCOUT",
     model  |-> "grok-3",
     system |-> <<"You are Scout. History:\n">> \o h \o <<"\n">> \o growth \o <<"\n\n">>
                \o StyleInst("SCOUT", style) \o <<"\n">>
                \o <<"CITATION REQUIRED: [Link](url) format.">>,
     user   |-> p]

\* Lines 183-187 and 192: the chat request of ask_architect.
ArchitectRequest(p, h, style, growth) ==
    [to     |-> "ARCHITECT",
     model  |-> "gpt-4o",
     system |-> <<"You are Architect. History:\n">> \o h \o <<"\n">> \o growth \o <<"\n\n">>
                \o StyleInst("ARCHITECT", style) \o <<"\n">>
                \o <<"NO HALLUCINATED LIBRARIES.">>,
     user   |-> <<"Task: ">> \o p]

\* Lines 206-210 and 215: the single-prompt request of ask_vc.
VCRequest(p, h, style, growth, model_id) ==
    [to     |-> "VC",
     model  |-> model_id,
     system |-> <<>>,
     user   |-> <<"You are VC. History:\n">> \o h \o <<"\n">> \o growth \o <<"\n\n">>
                \o <<"Critique this:\n">> \o p \o <<"\n\n">>
                \o StyleInst("VC", style)]

\* Lines 152, 175, 198: the answer of a director whose client is not bound.
Missing(R) ==
    CASE R = "SCOUT" -> <<"Scout (Grok) missing.">>
      [] R = "ARCHITECT" -> <<"Architect (GPT-4o) missing.">>
      [] R = "VC" -> <<"VC (Gemini) missing.">>

\* Lines 171, 194, 216: the answer around the provider's text.
Answered(R, model_id, text) ==
    CASE R = "SCOUT" -> <<"**[Grok-3]**\n">> \o text
      [] R = "ARCHITECT" -> <<"**[GPT-4o]**\n">> \o text
      [] R = "VC" -> <<"**[", model_id, "]**\n">> \o text

\* Lines 172, 195, 219: the answer around a caught exception e.
Crashed(R, e) ==
    CASE R = "SCOUT" -> <<"Scout Crashed: ">> \o e
      [] R = "ARCHITECT" -> <<"Architect Crashed: ">> \o e
      [] R = "VC" -> <<"VC Crashed: ">> \o e

\* Line 220.
TimedOut == <<"VC Timed Out">>

\* One attempt more than range(3).
MaxAttemptsOneMore == 3 + 1

\* Line 213: range(3).
MaxAttempts == 3

\* Line 218: time.sleep(2).
Backoff == 2

\* Every exception taken for a rate limit.
IsRateLimitAlways(e) == TRUE

\* Line 218: "429" in str(e).
IsRateLimit(e) == Contains(e, <<"429">>)

\* ---------------------------------------------------- orchestrator (pure)

\* The Architect prompt of the ALL branch without Scout's answer.
AllArchitectPromptNoContext(r1) == <<"Context: ", "\n\nTask: Tech Spec.">>

\* The prompts the ALL branch derives (lines 283-285).
AllScoutPrompt(p)         == <<"Analyze: ">> \o p
AllArchitectPrompt(r1)    == <<"Context: ">> \o r1 \o <<"\n\nTask: Tech Spec.">>
AllVCPrompt(r1, r2)       == <<"Scout: ">> \o r1 \o <<"\n\nArchitect: ">> \o r2 \o <<"\n\nVerdict?">>

\* Lines 271, 275, 279: the minutes of a single-target turn.
SingleMinutes(R, resp) ==
    CASE R = "SCOUT" -> <<"**SCOUT:**\n">> \o resp
      [] R = "ARCHITECT" -> <<"**ARCHITECT:**\n">> \o resp
      [] R = "VC" -> <<"**VC:**\n">> \o resp

\* Line 286: the minutes of the ALL branch.
BoardMinutes(r1, r2, r3) ==
    <<"### BOARD MEETING\n\n", "**SCOUT:**\n">> \o r1
    \o <<"\n\n", "**ARCHITECT:**\n">> \o r2
    \o <<"\n\n", "**VC VERDICT:**\n">> \o r3

\* Line 291: the text of one transcript entry.
Entry(stamp, p, final) ==
    <<"\n\nDATE: ", stamp, "\nUSER: ">> \o p \o <<"\nBOARD: ">> \o final

\* ------------------------------------------------ context.md (pure part)

NoFile == [exists |-> FALSE, content |-> <<>>]

\* Lines 240-242: history = "" unless context.md exists.
ReadContext(file) == IF file.exists THEN file.content ELSE <<>>

\* The write of the entry with mode "w" instead of "a".
AppendContextTruncates(file, text) == [exists |-> TRUE, content |-> text]

\* Lines 290-291: open("context.md", "a") creates the file when needed and
\* writes at its end.
AppendContext(file, text) ==
    [exists |-> TRUE, content |-> ReadContext(file) \o text]

\* The wipe that clears the session messages only.
WipeContextKeepsFile(file) == file

\* Lines 107-108: remove context.md when it exists.
WipeContext(file) == IF file.exists THEN NoFile ELSE file

\* ------------------------------------------------------- startup (pure part)

\* Line 44: the names of the listed models that support generateContent.
Available(catalog) ==
    LET usable == SelectSeq(catalog, LAMBDA m : m.generateContent)
    IN  [i \in 1..Len(usable) |-> usable[i].name]

\* The elements of a list.
Elements(list) == {list[i] : i \in 1..Len(list)}

\* The default taken in the order of the catalog instead of the priority's.
VCDefaultCatalogOrder(available) ==
    IF available = <<>> THEN "IndexError"
    ELSE IF \E i \in 1..Len(available) : available[i] \in Elements(Priority)
    THEN available[CHOOSE i \in 1..Len(available) :
                      /\ available[i] \in Elements(Priority)
                      /\ \A j \in 1..(i - 1) : available[j] \notin Elements(Priority)]
    ELSE available[1]

\* Line 47: next((m for m in priority if m in available), available[0]); the
\* default argument available[0] is evaluated first and raises IndexError on
\* an empty list.
VCDefault(available) ==
    IF available = <<>> THEN "IndexError"
    ELSE IF \E i \in 1..Len(Priority) : Priority[i] \in Elements(available)
    THEN Priority[CHOOSE i \in 1..Len(Priority) :
                     /\ Priority[i] \in Elements(available)
                     /\ \A j \in 1..(i - 1) : Priority[j] \notin Elements(available)]
    ELSE available[1]

\* The registry without the keys VC_AVAILABLE and VC_DEFAULT.
NoVC == [set |-> FALSE, VC_AVAILABLE |-> <<>>, VC_DEFAULT |-> ""]

\* Lines 43-50: the two keys after the inner try; `listed` is what
\* list_models() did.
VCRegistry(listed) ==
    IF listed.outcome = "ok" /\ VCDefault(Available(listed.models)) # "IndexError"
    THEN [set |-> TRUE, VC_AVAILABLE |-> Available(listed.models),
          VC_DEFAULT |-> VCDefault(Available(listed.models))]
    ELSE [set |-> TRUE, VC_AVAILABLE |-> <<FlashModel>>, VC_DEFAULT |-> FlashModel]

\* Line 88: clients.get("VC_AVAILABLE", ["models/gemini-1.5-flash"]).
VCOptions(registry) ==
    IF registry.set THEN registry.VC_AVAILABLE ELSE <<FlashModel>>

\* Line 89: clients.get("VC_DEFAULT", vc_options[0]).
DefaultVC(registry) ==
    IF registry.set THEN registry.VC_DEFAULT ELSE VCOptions(registry)[1]

\* Lines 92-95: vc_options.index(default_vc), 0 when it raises.
DefIdx(options, default) ==
    IF default \in Elements(options)
    THEN (CHOOSE i \in 1..Len(options) :
              /\ options[i] = default
              /\ \A j \in 1..(i - 1) : options[j] # default) - 1
    ELSE 0

\* ----------------------------------------------------------------- state

VARIABLES
    KEYS,               \* providers with an API key (lines 19-23)
    listing,            \* what genai.list_models() did at startup (observation)
    vc_registry,        \* clients["VC_AVAILABLE"], clients["VC_DEFAULT"]
    vc_options,         \* line 88
    default_vc,         \* line 89
    def_idx,            \* lines 92-95
    clients,            \* keys of the registry init_clients built (line 69)
    rules_md,           \* the file rules.md
    context_md,         \* the file context.md
    messages,           \* st.session_state.messages
    clock,              \* wall clock, one chat input per minute
    appended,           \* writes made to context.md so far (observation)
    entries,            \* the entries written since the last wipe (observation)
    pc,                 \* position of the running script
    response_style,     \* sidebar radio (line 78)
    selected_vc_model,  \* sidebar selectbox (line 97)
    prompt,             \* line 235
    history,            \* line 240
    target,             \* line 245
    router_calls,       \* invocations of ask_vc_router in this run (observation)
    calls,              \* director invocations of this run, in order (observation)
    requests,           \* provider requests of this run, in order (observation)
    responses,          \* values the directors returned in this run, in order
    attempt,            \* loop variable of ask_vc (line 213)
    sleeps,             \* durations of the time.sleep calls of this run (observation)
    vc_log,             \* outcomes of the provider attempts of ask_vc (observation)
    vc_request,         \* full_prompt and model handle of the running ask_vc
    final_response,     \* line 260
    exception           \* the uncaught exception that ended the run, if any

startup == <<KEYS, listing, vc_registry, vc_options, default_vc, def_idx>>
env    == <<clients, rules_md, startup>>
store  == <<context_md, messages, clock, appended, entries>>
locals == <<response_style, selected_vc_model, prompt, history, target, router_calls,
            calls, requests, responses, attempt, sleeps, vc_log, vc_request,
            final_response, exception>>
vars   == <<env, store, pc, locals>>

NoRequest == [to |-> "NONE", model |-> "", system |-> <<>>, user |-> <<>>]

NoException == [in |-> "", what |-> ""]

\* The values a fresh script run starts from.
FreshLocals ==
    /\ prompt' = <<>>
    /\ history' = <<>>
    /\ target' = "ALL"
    /\ router_calls' = <<>>
    /\ calls' = <<>>
    /\ requests' = <<>>
    /\ responses' = <<>>
    /\ attempt' = 0
    /\ sleeps' = <<>>
    /\ vc_log' = <<>>
    /\ vc_request' = NoRequest
    /\ final_response' = <<>>
    /\ exception' = NoException

\* list_models() was not called.
NotListed == [outcome |-> "none", models |-> <<>>]

\* The state after startup and the first sidebar: no call of init_clients
\* raised, and the catalog lists one model.
Init ==
    /\ clients \in ClientSets
    /\ KEYS = {k \in Providers : ClientOf(k) \in clients}
    /\ listing = IF "GOOGLE" \in KEYS THEN [outcome |-> "ok", models |-> ProCatalog]
                 ELSE NotListed
    /\ vc_registry = IF "GOOGLE" \in KEYS THEN VCRegistry(listing) ELSE NoVC
    /\ vc_options = VCOptions(vc_registry)
    /\ default_vc = DefaultVC(vc_registry)
    /\ def_idx = DefIdx(vc_options, default_vc)
    /\ rules_md \in RulesFiles
    /\ context_md = NoFile
    /\ messages = <<>>
    /\ clock = 0
    /\ appended = 0
    /\ entries = <<>>
    /\ pc = "idle"
    /\ response_style = StyleBrief
    /\ selected_vc_model = vc_options[def_idx + 1]
    /\ prompt = <<>>
    /\ history = <<>>
    /\ target = "ALL"
    /\ router_calls = <<>>
    /\ calls = <<>>
    /\ requests = <<>>
    /\ responses = <<>>
    /\ attempt = 0
    /\ sleeps = <<>>
    /\ vc_log = <<>>
    /\ vc_request = NoRequest
    /\ final_response = <<>>
    /\ exception = NoException

\* The script is not running: it ended normally or with an uncaught exception.
Ready == pc \in {"idle", "aborted"}

\* ----------------------------------------------------------- environment

\* What open("rules.md").read() may do (lines 145-147, outside any try).
RulesReads(file) == IF file.exists THEN {"read", "raise"} ELSE {"read"}

\* What clients["VC_CLIENT"].GenerativeModel(model_id) may do (lines 119, 212,
\* outside any try).
HandleOutcomes == {"handle", "raise"}

\* What a provider call may do: answer with a text, or raise with a message.
ProviderOutcomes(R) ==
    CASE R = "SCOUT" -> { [ok |-> TRUE, text |-> <<"scout says">>],
                          [ok |-> FALSE, text |-> E_Other] }
      [] R = "ARCHITECT" -> { [ok |-> TRUE, text |-> <<"architect says">>],
                              [ok |-> FALSE, text |-> E_Other] }
      [] R = "VC" -> { [ok |-> TRUE, text |-> <<"vc says">>],
                       [ok |-> FALSE, text |-> E_RateLimit],
                       [ok |-> FALSE, text |-> E_Other] }

\* What the router's generate_content may do.
RouterOutcomes ==
    { [ok |-> TRUE, text |-> a] : a \in RouterAnswers } \cup { [ok |-> FALSE, text |-> E_Other] }

\* ------------------------------------------------------------ the script

\* The director the execution block calls first for a target (lines 269-283).
FirstStage(t) ==
    CASE t = "SCOUT" -> "scout" [] t = "ARCHITECT" -> "architect"
      [] t = "VC" -> "vc" [] t = "ALL" -> "scout"

\* Lines 235-256 up to the router call: the chat input, the context load and
\* the manual override.
Submit(p, style, model_id) ==
    /\ Ready
    /\ clock < MaxTurns
    /\ clock' = clock + 1
    /\ messages' = Append(messages, [role |-> "user", content |-> p])
    /\ response_style' = style
    /\ selected_vc_model' = model_id
    /\ prompt' = p
    /\ history' = ReadContext(context_md)
    /\ IF OverrideTarget(p) # "NONE"
       THEN /\ target' = OverrideTarget(p)
            /\ pc' = FirstStage(OverrideTarget(p))
       ELSE /\ target' = "ALL"
            /\ pc' = "router"
    /\ router_calls' = <<>>
    /\ calls' = <<>>
    /\ requests' = <<>>
    /\ responses' = <<>>
    /\ attempt' = 0
    /\ sleeps' = <<>>
    /\ vc_log' = <<>>
    /\ vc_request' = NoRequest
    /\ final_response' = <<>>
    /\ exception' = NoException
    /\ UNCHANGED <<env, context_md, appended, entries>>

\* An exception nobody catches ends the script run.
Raise(where, what) ==
    /\ pc' = "aborted"
    /\ exception' = [in |-> where, what |-> what]

\* The router without its line 117: clients["VC_CLIENT"] raises KeyError when
\* the key is absent.
ask_vc_routerUnchecked ==
    /\ pc = "router"
    /\ IF "VC_CLIENT" \notin clients
       THEN /\ router_calls' = Append(router_calls, [outcome |-> "raised", raw |-> <<>>])
            /\ Raise("ask_vc_router", "KeyError")
            /\ UNCHANGED target
       ELSE \E o \in RouterOutcomes :
              /\ router_calls' =
                   Append(router_calls,
                          [outcome |-> IF o.ok THEN "answered" ELSE "call failed",
                           raw |-> o.text])
              /\ target' = IF o.ok THEN RouterDecision(o.text) ELSE "ALL"
              /\ pc' = FirstStage(target')
              /\ UNCHANGED exception
    /\ UNCHANGED <<env, store, response_style, selected_vc_model, prompt, history, calls,
                   requests, responses, attempt, sleeps, vc_log, vc_request, final_response>>

\* Lines 115-138 and 255.
ask_vc_router ==
    /\ pc = "router"
    /\ IF "VC_CLIENT" \notin clients
       THEN /\ router_calls' = Append(router_calls, [outcome |-> "unconfigured", raw |-> <<>>])
            /\ target' = "ALL"
            /\ pc' = FirstStage("ALL")
            /\ UNCHANGED exception
       ELSE \E h \in HandleOutcomes :
              IF h = "raise"
              THEN /\ router_calls' = Append(router_calls, [outcome |-> "raised", raw |-> <<>>])
                   /\ Raise("ask_vc_router", "GenerativeModel")
                   /\ UNCHANGED target
              ELSE \E o \in RouterOutcomes :
                     /\ router_calls' =
                          Append(router_calls,
                                 [outcome |-> IF o.ok THEN "answered" ELSE "call failed",
                                  raw |-> o.text])
                     /\ target' = IF o.ok THEN RouterDecision(o.text) ELSE "ALL"
                     /\ pc' = FirstStage(target')
                     /\ UNCHANGED exception
    /\ UNCHANGED <<env, store, response_style, selected_vc_model, prompt, history, calls,
                   requests, responses, attempt, sleeps, vc_log, vc_request, final_response>>

\* The prompt the execution block hands to a director (lines 270-285).
DirectorPrompt(R) ==
    IF target = R THEN prompt
    ELSE CASE R = "SCOUT" -> AllScoutPrompt(prompt)
           [] R = "ARCHITECT" -> AllArchitectPrompt(responses[1].text)
           [] R = "VC" -> AllVCPrompt(responses[1].text, responses[2].text)

\* The invocation of a director with an empty history for every director but
\* the first of the turn.
InvokeFirstOnlyHistory(R) ==
    calls' = Append(calls, [name |-> R, p |-> DirectorPrompt(R),
                            h |-> IF calls = <<>> THEN history ELSE <<>>,
                            style |-> response_style,
                            model_id |-> IF R = "VC" THEN selected_vc_model ELSE ""])

\* The invocation run(name, func, p, h, **k) of a director (lines 263-265).
Invoke(R) ==
    calls' = Append(calls, [name |-> R, p |-> DirectorPrompt(R), h |-> history,
                            style |-> response_style,
                            model_id |-> IF R = "VC" THEN selected_vc_model ELSE ""])

\* The position after director R returned (lines 269-286).
NextStage(R) ==
    IF target = R THEN "persist"
    ELSE CASE R = "SCOUT" -> "architect" [] R = "ARCHITECT" -> "vc" [] R = "VC" -> "persist"

\* Director R returns r to the execution block, which composes the minutes
\* after the last call (lines 271, 275, 279, 286).
Return(R, r) ==
    /\ responses' = Append(responses, [role |-> R, text |-> r])
    /\ pc' = NextStage(R)
    /\ final_response' =
         IF target = R THEN SingleMinutes(R, r)
         ELSE IF R = "VC" THEN BoardMinutes(responses[1].text, responses[2].text, r)
         ELSE final_response
    /\ UNCHANGED exception

\* Lines 151-172.
ask_scout ==
    /\ pc = "scout"
    /\ Invoke("SCOUT")
    /\ IF "SCOUT" \notin clients
       THEN /\ Return("SCOUT", Missing("SCOUT"))
            /\ UNCHANGED requests
       ELSE \E rd \in RulesReads(rules_md) :
              IF rd = "raise"
              THEN /\ Raise("ask_scout", "rules.md")
                   /\ UNCHANGED <<requests, responses, final_response>>
              ELSE \E o \in ProviderOutcomes("SCOUT") :
                     /\ requests' =
                          Append(requests,
                                 ScoutRequest(DirectorPrompt("SCOUT"), history, response_style,
                                              get_agent_rules("SCOUT", rules_md)))
                     /\ Return("SCOUT", IF o.ok THEN Answered("SCOUT", "", o.text)
                                        ELSE Crashed("SCOUT", o.text))
    /\ UNCHANGED <<env, store, response_style, selected_vc_model, prompt, history, target,
                   router_calls, attempt, sleeps, vc_log, vc_request>>

\* Lines 174-195.
ask_architect ==
    /\ pc = "architect"
    /\ Invoke("ARCHITECT")
    /\ IF "ARCHITECT" \notin clients
       THEN /\ Return("ARCHITECT", Missing("ARCHITECT"))
            /\ UNCHANGED requests
       ELSE \E rd \in RulesReads(rules_md) :
              IF rd = "raise"
              THEN /\ Raise("ask_architect", "rules.md")
                   /\ UNCHANGED <<requests, responses, final_response>>
              ELSE \E o \in ProviderOutcomes("ARCHITECT") :
                     /\ requests' =
                          Append(requests,
                                 ArchitectRequest(DirectorPrompt("ARCHITECT"), history,
                                                  response_style,
                                                  get_agent_rules("ARCHITECT", rules_md)))
                     /\ Return("ARCHITECT", IF o.ok THEN Answered("ARCHITECT", "", o.text)
                                            ELSE Crashed("ARCHITECT", o.text))
    /\ UNCHANGED <<env, store, response_style, selected_vc_model, prompt, history, target,
                   router_calls, attempt, sleeps, vc_log, vc_request>>

\* ask_vc without its line 198: the retry loop is entered whether or not the
\* client is bound.
ask_vcUnchecked ==
    /\ pc = "vc"
    /\ Invoke("VC")
    /\ vc_request' = VCRequest(DirectorPrompt("VC"), history, response_style,
                               get_agent_rules("VC", rules_md), selected_vc_model)
    /\ attempt' = 0
    /\ pc' = "vc_try"
    /\ UNCHANGED <<responses, final_response, exception>>
    /\ UNCHANGED <<env, store, response_style, selected_vc_model, prompt, history, target,
                   router_calls, requests, sleeps, vc_log>>

\* Lines 197-213: ask_vc up to the first attempt.
ask_vc ==
    /\ pc = "vc"
    /\ Invoke("VC")
    /\ IF "VC_CLIENT" \notin clients
       THEN /\ Return("VC", Missing("VC"))
            /\ UNCHANGED <<attempt, vc_request>>
       ELSE \E rd \in RulesReads(rules_md), h \in HandleOutcomes :
              IF rd = "raise" \/ h = "raise"
              THEN /\ Raise("ask_vc", IF rd = "raise" THEN "rules.md" ELSE "GenerativeModel")
                   /\ UNCHANGED <<responses, final_response, attempt, vc_request>>
              ELSE /\ vc_request' = VCRequest(DirectorPrompt("VC"), history, response_style,
                                              get_agent_rules("VC", rules_md),
                                              selected_vc_model)
                   /\ attempt' = 0
                   /\ pc' = "vc_try"
                   /\ UNCHANGED <<responses, final_response, exception>>
    /\ UNCHANGED <<env, store, response_style, selected_vc_model, prompt, history, target,
                   router_calls, requests, sleeps, vc_log>>

\* Lines 214-219: one attempt of the retry loop, up to its return or its sleep.
vc_attempt ==
    /\ pc = "vc_try"
    /\ \E o \in ProviderOutcomes("VC") :
         /\ requests' = Append(requests, vc_request)
         /\ vc_log' = Append(vc_log, o)
         /\ IF o.ok
            THEN Return("VC", Answered("VC", selected_vc_model, o.text))
            ELSE IF IsRateLimit(o.text)
                 THEN /\ pc' = "vc_sleep"
                      /\ UNCHANGED <<responses, final_response, exception>>
                 ELSE Return("VC", Crashed("VC", o.text))
    /\ UNCHANGED <<env, store, response_style, selected_vc_model, prompt, history, target,
                   router_calls, calls, attempt, sleeps, vc_request>>

\* Lines 218, 213, 220: time.sleep(2); continue, then the next iteration or
\* the end of range(3).
vc_sleep ==
    /\ pc = "vc_sleep"
    /\ sleeps' = Append(sleeps, Backoff)
    /\ attempt' = attempt + 1
    /\ IF attempt + 1 < MaxAttempts
       THEN /\ pc' = "vc_try"
            /\ UNCHANGED <<responses, final_response, exception>>
       ELSE Return("VC", TimedOut)
    /\ UNCHANGED <<env, store, response_style, selected_vc_model, prompt, history, target,
                   router_calls, calls, requests, vc_log, vc_request>>

\* Lines 288-291: the assistant message and the append to context.md, which
\* end the script run.
Persist ==
    /\ pc = "persist"
    /\ messages' = Append(messages, [role |-> "assistant", content |-> final_response])
    /\ context_md' = AppendContext(context_md, Entry(ToString(clock), prompt, final_response))
    /\ appended' = appended + 1
    /\ entries' = Append(entries, Entry(ToString(clock), prompt, final_response))
    /\ pc' = "idle"
    /\ FreshLocals
    /\ UNCHANGED <<env, clock, response_style, selected_vc_model>>

\* Lines 106-110: the "Wipe Memory" button, a script run of its own.
Wipe ==
    /\ Ready
    /\ context_md' = WipeContext(context_md)
    /\ messages' = <<>>
    /\ entries' = <<>>
    /\ pc' = "idle"
    /\ FreshLocals
    /\ UNCHANGED <<env, clock, appended, response_style, selected_vc_model>>

Next ==
    \/ \E p \in Prompts, style \in Styles, model_id \in Elements(vc_options) :
          Submit(p, style, model_id)
    \/ ask_vc_router
    \/ ask_scout
    \/ ask_architect
    \/ ask_vc
    \/ vc_attempt
    \/ vc_sleep
    \/ Persist
    \/ Wipe

Spec == Init /\ [][Next]_vars

\* ---------------------------------------------------------------- startup

\* The process before init_clients ran.
StartupInit ==
    /\ KEYS \in SUBSET Providers
    /\ listing = NotListed
    /\ vc_registry = NoVC
    /\ vc_options = <<>>
    /\ default_vc = ""
    /\ def_idx = 0
    /\ clients = {}
    /\ rules_md = NoRules
    /\ context_md = NoFile
    /\ messages = <<>>
    /\ clock = 0
    /\ appended = 0
    /\ entries = <<>>
    /\ pc = "startup"
    /\ response_style = StyleBrief
    /\ selected_vc_model = ""
    /\ prompt = <<>>
    /\ history = <<>>
    /\ target = "ALL"
    /\ router_calls = <<>>
    /\ calls = <<>>
    /\ requests = <<>>
    /\ responses = <<>>
    /\ attempt = 0
    /\ sleeps = <<>>
    /\ vc_log = <<>>
    /\ vc_request = NoRequest
    /\ final_response = <<>>
    /\ exception = NoException

\* Lines 29-67: init_clients.  `raises` are the calls that raise when they are
\* made, `catalog` is what list_models() returns when it returns.
init_clients(raises, catalog) ==
    /\ pc = "startup"
    /\ pc' = "sidebar"
    /\ LET google == "GOOGLE" \in KEYS /\ "configure" \notin raises
           listed == IF "list_models" \in raises
                     THEN [outcome |-> "raised", models |-> <<>>]
                     ELSE [outcome |-> "ok", models |-> catalog]
       IN  /\ listing' = IF google THEN listed ELSE NotListed
           /\ vc_registry' = IF google THEN VCRegistry(listed) ELSE NoVC
           /\ clients' = {ClientOf(k) : k \in
                            {k \in KEYS :
                                \/ k = "GOOGLE" /\ google
                                \/ k = "OPENAI" /\ "OpenAI" \notin raises
                                \/ k = "XAI" /\ "xAI" \notin raises}}
    /\ UNCHANGED <<KEYS, vc_options, default_vc, def_idx, rules_md, store, locals>>

\* Lines 75-101: the sidebar of the first script run, with the widgets at
\* their index.
sidebar ==
    /\ pc = "sidebar"
    /\ pc' = "idle"
    /\ response_style' = StyleBrief
    /\ vc_options' = VCOptions(vc_registry)
    /\ default_vc' = DefaultVC(vc_registry)
    /\ def_idx' = DefIdx(vc_options', default_vc')
    /\ selected_vc_model' = vc_options'[def_idx' + 1]
    /\ UNCHANGED <<KEYS, listing, vc_registry, clients, rules_md, store, prompt, history,
                   target, router_calls, calls, requests, responses, attempt, sleeps,
                   vc_log, vc_request, final_response, exception>>

StartupNext ==
    \/ \E raises \in SUBSET InitCalls, catalog \in Catalogs : init_clients(raises, catalog)
    \/ sidebar

StartupSpec == StartupInit /\ [][StartupNext]_vars

\* The script runs to its end once started, and a provider call returns.
FairSpec ==
    Spec /\ WF_vars(ask_vc_router \/ ask_scout \/ ask_architect \/ ask_vc
                    \/ vc_attempt \/ vc_sleep \/ Persist)

\* ------------------------------------------------------------- properties

Last(q) == q[Len(q)]

IsPrefix(a, b) == Len(a) <= Len(b) /\ a = SubSeq(b, 1, Len(a))

Names(cs) == [i \in 1..Len(cs) |-> cs[i].name]

RECURSIVE Concat(_)
Concat(texts) == IF texts = <<>> THEN <<>> ELSE Head(texts) \o Concat(Tail(texts))

\* The prompt holds the override token of role R, in any case, anywhere.
HasToken(p, R) == Contains(Lower(p), Token(R))

\* The roles whose token the manual override tests before that of R.
Before(R) ==
    CASE R = "SCOUT" -> {} [] R = "ARCHITECT" -> {"SCOUT"} [] R = "VC" -> {"SCOUT", "ARCHITECT"}

\* C1 as stated: whenever the prompt of the turn holds the override token of a
\* role R, the target is R and the router was not invoked.
C1_AnyTokenWins ==
    \A R \in Roles : HasToken(prompt, R) => target = R /\ router_calls = <<>>

\* C1, amended: when the prompt holds the override token of role R and of no
\* role tested before R (Scout, then Architect, then VC), the target is R; and
\* with any override token in the prompt the router is not invoked.
C1_FirstTokenWins ==
    \A R \in Roles :
        HasToken(prompt, R) =>
            /\ router_calls = <<>>
            /\ (\A Q \in Before(R) : ~HasToken(prompt, Q)) => target = R

C1_Witness ==
    /\ prompt = P_Architect
    /\ target = "ARCHITECT"
    /\ pc = "persist"
    /\ Names(calls) = <<"ARCHITECT">>

\* C2: once the router was invoked (a prompt without override token), the turn
\* has a target, no exception left the router, and the target is ALL when the
\* provider is unconfigured, the model call failed, or the answer is none of
\* the four labels.
C2_RouterNeverFails ==
    router_calls # <<>> =>
        /\ exception.in # "ask_vc_router"
        /\ target \in Targets
        /\ router_calls[1].outcome \in {"unconfigured", "call failed"} => target = "ALL"
        /\ router_calls[1].raw \in {<<"V", "C", ".">>,
                                    <<"*", "*", " ", "S", "C", "O", "U", "T", " ", "*", "*">>}
             => target = "ALL"

\* C3: in the ALL pipeline the directors are invoked in the order Scout,
\* Architect, VC, each only after the one before has returned; the prompt
\* Architect receives (and sends on) holds Scout's whole answer, and the prompt
\* VC receives (and sends on) holds Scout's and Architect's whole answers.
C3_Pipeline ==
    target = "ALL" =>
        /\ IsPrefix(Names(calls), <<"SCOUT", "ARCHITECT", "VC">>)
        /\ Len(calls) <= Len(responses) + 1
        /\ \A i \in 1..Len(responses) : responses[i].role = calls[i].name
        /\ Len(calls) >= 2 => Contains(calls[2].p, responses[1].text)
        /\ Len(calls) >= 3 => /\ Contains(calls[3].p, responses[1].text)
                              /\ Contains(calls[3].p, responses[2].text)
        /\ \A k \in 1..Len(requests) :
             /\ requests[k].to = "ARCHITECT" => Contains(requests[k].user, responses[1].text)
             /\ requests[k].to = "VC" => /\ Contains(requests[k].user, responses[1].text)
                                         /\ Contains(requests[k].user, responses[2].text)

C3_Witness ==
    /\ target = "ALL"
    /\ pc = "persist"
    /\ Len(requests) = 3
    /\ responses[1].text = Answered("SCOUT", "", <<"scout says">>)
    /\ responses[2].text = Answered("ARCHITECT", "", <<"architect says">>)
    /\ responses[3].text = Answered("VC", selected_vc_model, <<"vc says">>)

\* C4: every turn that has ended has appended its entry to context.md, so the
\* number of writes equals the number of chat inputs whenever no script runs.
C4_AlwaysPersists == Ready => appended = clock

\* C5: no exception leaves ask_scout, ask_architect or ask_vc, and when the
\* execution block is done there is one response per invoked director.
C5_NoDirectorRaises ==
    /\ exception.in \notin {"ask_scout", "ask_architect", "ask_vc"}
    /\ pc = "persist" => Len(responses) = Len(calls)

\* Outcomes of one provider attempt of the VC director.
VC_RL  == [ok |-> FALSE, text |-> E_RateLimit]
VC_ERR == [ok |-> FALSE, text |-> E_Other]
VC_OK  == [ok |-> TRUE, text |-> <<"vc says">>]

\* Provider attempts ask_vc has made in this run.
VCAttempts == Len(SelectSeq(requests, LAMBDA q : q.to = "VC"))

VCReturned == responses # <<>> /\ Last(responses).role = "VC"

\* C6: in ask_vc, an attempt that answers or fails without "429" is the last
\* attempt of the call and decides its result; two rate-limit failures and
\* then an answer give the answer after exactly 3 attempts; a failure that is
\* no rate limit on the first attempt gives the failure after exactly 1.
C6_Retry ==
    /\ Len(vc_log) = VCAttempts
    /\ \A i \in 1..(Len(vc_log) - 1) : vc_log[i] = VC_RL
    /\ (vc_log # <<>> /\ Last(vc_log) # VC_RL) =>
          /\ VCReturned
          /\ pc \notin {"vc_try", "vc_sleep"}
          /\ Last(responses).text =
                IF Last(vc_log) = VC_OK
                THEN <<"**[", selected_vc_model, "]**\n", "vc says">>
                ELSE <<"VC Crashed: ">> \o E_Other
    /\ vc_log = <<VC_RL, VC_RL, VC_OK>> => VCAttempts = 3
    /\ (vc_log # <<>> /\ vc_log[1] = VC_ERR) => VCAttempts = 1

C6_Witness ==
    /\ VCReturned
    /\ vc_log = <<VC_RL, VC_RL, VC_OK>>
    /\ Last(responses).text = Answered("VC", selected_vc_model, <<"vc says">>)

InVC == pc \in {"vc", "vc_try", "vc_sleep"}

C7_AtMostThree ==
    /\ VCAttempts <= 3
    /\ (VCAttempts = 3 /\ Last(vc_log) = VC_RL /\ pc # "vc_sleep") =>
          /\ VCReturned
          /\ Last(responses).text = <<"VC Timed Out">>
          /\ \A e \in {E_RateLimit, E_Other} : Last(responses).text # Crashed("VC", e)

\* Steps a running call of ask_vc can still take, at most.
VCStepsLeft ==
    CASE pc = "vc" -> 7
      [] pc = "vc_try" -> 6 - 2 * attempt
      [] pc = "vc_sleep" -> 5 - 2 * attempt
      [] OTHER -> 0

\* C7: ask_vc makes at most 3 provider attempts and a call of it always ends
\* (a call in progress can always take its next step, and every step ends the
\* call or lowers the count of steps left); after 3 rate-limit failures it
\* returns "VC Timed Out", which differs from the answer for any other failure.
C7_Terminates ==
    /\ []C7_AtMostThree
    /\ [](InVC => /\ attempt < 3
                  /\ ENABLED (ask_vc \/ vc_attempt \/ vc_sleep))
    /\ [][InVC => (~InVC' \/ VCStepsLeft' < VCStepsLeft)]_vars

C7_Witness ==
    /\ VCReturned
    /\ vc_log = <<VC_RL, VC_RL, VC_RL>>
    /\ Last(responses).text = TimedOut

\* C8: what a read of context.md returns is the concatenation, in the order
\* they were written, of the entries written since the last wipe: empty text
\* when the file was never written or was wiped, and the history a turn loads
\* is this text.
C8_Read ==
    /\ ReadContext(context_md) = Concat(entries)
    /\ entries = <<>> => ReadContext(context_md) = <<>>
    /\ prompt # <<>> => history = Concat(entries)

C8_Witness ==
    /\ Len(entries) = 2
    /\ entries[1] # entries[2]
    /\ pc = "idle"

C10_SingleTarget ==
    [][ (target \in Roles /\ ~Ready /\ Ready') =>
            /\ pc = "persist"
            /\ Len(calls) = 1
            /\ calls[1].name = target
            /\ calls[1].p = prompt
            /\ calls[1].h = history
            /\ Len(responses) = 1
            /\ final_response = SingleMinutes(target, responses[1].text)
            /\ ReadContext(context_md') =
                  history \o Entry(ToString(clock), prompt, final_response)
            /\ appended' = appended + 1 ]_vars

\* The registry key of a role's client (lines 152, 175, 198).
ClientKey(R) == IF R = "VC" THEN "VC_CLIENT" ELSE R

\* The text a director answers with when its client is not bound.
UnavailableText(R) ==
    CASE R = "SCOUT" -> <<"Scout (Grok) missing.">>
      [] R = "ARCHITECT" -> <<"Architect (GPT-4o) missing.">>
      [] R = "VC" -> <<"VC (Gemini) missing.">>

\* C11: a director invoked while its client is not bound has returned, in the
\* step of its invocation, the "missing" answer; no request went to its
\* provider, and for VC there was no attempt, no retry and no sleep.
C11_Unavailable ==
    \A i \in 1..Len(calls) :
        ClientKey(calls[i].name) \notin clients =>
            /\ i <= Len(responses)
            /\ responses[i].role = calls[i].name
            /\ responses[i].text = UnavailableText(calls[i].name)
            /\ \A k \in 1..Len(requests) : requests[k].to # calls[i].name
            /\ calls[i].name = "VC" =>
                  /\ vc_log = <<>>
                  /\ sleeps = <<>>
                  /\ attempt = 0
                  /\ vc_request = NoRequest
                  /\ pc \notin {"vc_try", "vc_sleep"}

C11_Witness ==
    /\ clients = {"SCOUT", "ARCHITECT"}
    /\ target = "ALL"
    /\ pc = "persist"
    /\ Len(requests) = 2
    /\ responses[3].text = <<"VC (Gemini) missing.">>

\* C12: with no client bound at all, no exception ends a turn and no provider
\* is called; the router answers without a model call and a prompt without
\* override token gets the target ALL; every director returns its "missing"
\* answer; the minutes are composed from them and every ended turn has written
\* its entry.
C12_AllAbsent ==
    clients = {} =>
        /\ exception = NoException
        /\ pc # "aborted"
        /\ requests = <<>>
        /\ vc_log = <<>>
        /\ sleeps = <<>>
        /\ \A i \in 1..Len(router_calls) : router_calls[i].outcome = "unconfigured"
        /\ (\A R \in Roles : ~HasToken(prompt, R)) => target = "ALL"
        /\ Len(responses) = Len(calls)
        /\ \A i \in 1..Len(responses) :
             responses[i].text = UnavailableText(responses[i].role)
        /\ (pc = "persist" /\ target = "ALL") =>
              /\ Len(router_calls) = 1
              /\ final_response =
                    <<"### BOARD MEETING\n\n", "**SCOUT:**\n", "Scout (Grok) missing.",
                      "\n\n", "**ARCHITECT:**\n", "Architect (GPT-4o) missing.",
                      "\n\n", "**VC VERDICT:**\n", "VC (Gemini) missing.">>
        /\ Ready => (appended = clock /\ (clock > 0 => context_md.exists \/ entries = <<>>))

C12_Witness ==
    /\ clients = {}
    /\ prompt = P_Plain
    /\ pc = "persist"
    /\ target = "ALL"
    /\ Names(calls) = <<"SCOUT", "ARCHITECT", "VC">>
    /\ Len(responses) = 3

\* The request director call c sends when the style mode is `style`.
RequestOf(c, style) ==
    CASE c.name = "SCOUT" ->
            ScoutRequest(c.p, c.h, style, get_agent_rules("SCOUT", rules_md))
      [] c.name = "ARCHITECT" ->
            ArchitectRequest(c.p, c.h, style, get_agent_rules("ARCHITECT", rules_md))
      [] c.name = "VC" ->
            VCRequest(c.p, c.h, style, get_agent_rules("VC", rules_md), c.model_id)

\* The instruction text of a request: the system message of a chat request,
\* the single prompt of a VC request.
Instruction(q) == IF q.to = "VC" THEN q.user ELSE q.system

\* Texts a and b are equal but for one segment, the brief style directive of
\* role R in a and the detailed one in b, which follows the role, history and
\* rules segments of call c.
StyleOnly(R, c, a, b) ==
    /\ Len(a) = Len(b)
    /\ \E i \in {Len(c.h) + Len(get_agent_rules(R, rules_md)) + 4, Len(a)} :
         /\ i <= Len(a)
         /\ <<a[i]>> = StyleInst(R, StyleBrief)
         /\ <<b[i]>> = StyleInst(R, StyleDetailed)
         /\ a[i] # b[i]
         /\ [a EXCEPT ![i] = b[i]] = b
    /\ a[1] = b[1]
    /\ SubSeq(a, 2, 1 + Len(c.h)) = c.h
    /\ SubSeq(b, 2, 1 + Len(c.h)) = c.h

\* The target as the prompt and the router's answer alone decide it.
RouteOf(p, rc) ==
    IF \E R \in Roles : HasToken(p, R)
    THEN CHOOSE R \in Roles : HasToken(p, R) /\ \A Q \in Before(R) : ~HasToken(p, Q)
    ELSE IF rc # <<>> /\ rc[1].outcome = "answered" THEN RouterDecision(rc[1].raw)
    ELSE "ALL"

\* The requests of an ended script run and their counterparts under the
\* other style mode; the target as the prompt and the router give it.
C13_EndOfRun ==
    pc \in {"persist", "aborted"} =>
      /\ \A k \in 1..Len(requests) :
            \E j \in 1..Len(calls) :
               /\ calls[j].name = requests[k].to
               /\ requests[k] = RequestOf(calls[j], response_style)
      /\ \A j \in 1..Len(calls) :
            LET c == calls[j]
                a == RequestOf(c, StyleBrief)
                b == RequestOf(c, StyleDetailed)
            IN  /\ c.style = response_style
                /\ a.to = b.to
                /\ a.model = b.model
                /\ c.name # "VC" => a.user = b.user
                /\ c.name = "VC" => a.system = b.system
                /\ StyleOnly(c.name, c, Instruction(a), Instruction(b))
      /\ prompt # <<>> => target = RouteOf(prompt, router_calls)

\* C13: when a script run ends, every request a director sent in it is the
\* one its prompt, history, rules and the style mode of the turn give, and the
\* requests the same call gives under Brief and under Detailed are equal
\* (provider, model, user prompt, role identity, history, rules) but for the
\* one style directive segment; the target is what the prompt and the
\* router's answer give, whatever the style.
C13_StyleOnly == []C13_EndOfRun

C13_Witness ==
    /\ rules_md = SomeRules
    /\ response_style = StyleDetailed
    /\ history # <<>>
    /\ Len(requests) = 3
    /\ requests[1].to = "SCOUT"
    /\ requests[3].to = "VC"

\* C14: a turn whose target is ALL ends only after exactly three director
\* calls, Scout, Architect, VC, whatever the earlier ones returned, with the
\* earlier answers (failures included) inside the later prompts and with
\* minutes of three labelled sections in that order.
C14_AlwaysThree ==
    [][ (target = "ALL" /\ pc # "router" /\ ~Ready /\ Ready') =>
            /\ pc = "persist"
            /\ Names(calls) = <<"SCOUT", "ARCHITECT", "VC">>
            /\ Len(responses) = 3
            /\ Contains(calls[2].p, responses[1].text)
            /\ Contains(calls[3].p, responses[1].text)
            /\ Contains(calls[3].p, responses[2].text)
            /\ final_response =
                  <<"### BOARD MEETING\n\n", "**SCOUT:**\n">> \o responses[1].text
                  \o <<"\n\n", "**ARCHITECT:**\n">> \o responses[2].text
                  \o <<"\n\n", "**VC VERDICT:**\n">> \o responses[3].text ]_vars

\* C15: a call of ask_vc that has returned after k >= 1 provider attempts has
\* slept exactly k - 1 times, 2 units each, so no sleep follows the last
\* attempt.
C15_SleepBetween ==
    (VCReturned /\ VCAttempts >= 1) =>
        /\ Len(sleeps) + 1 = VCAttempts
        /\ \A i \in 1..Len(sleeps) : sleeps[i] = 2

\* The history is the text after the role identity in the instruction of q.
CarriesHistory(q, h) == SubSeq(Instruction(q), 2, 1 + Len(h)) = h

C16_SameHistory ==
    prompt # <<>> =>
        /\ history = ReadContext(context_md)
        /\ history = Concat(entries)
        /\ \A i \in 1..Len(calls) : calls[i].h = history
        /\ \A k \in 1..Len(requests) : CarriesHistory(requests[k], history)

\* C16: during a turn the history every director receives, and sends to its
\* provider, is the whole content of context.md as read at the start of the
\* turn, that is every entry written since the last wipe; and no step of a
\* turn before its final append changes context.md.
C16_History ==
    /\ []C16_SameHistory
    /\ [][(~Ready /\ pc # "persist") => context_md' = context_md]_vars

C16_Witness ==
    /\ target = "ALL"
    /\ pc = "persist"
    /\ Len(entries) = 1
    /\ history = entries[1]
    /\ Len(calls) = 3
    /\ Len(requests) = 3

\* What the claim gives for each raw answer of the router's model.
ExpectedLabel(raw) ==
    CASE raw = <<"S", "C", "O", "U", "T">> -> "SCOUT"
      [] raw = <<" ", "*", "*", "A", "r", "c", "h", "i", "t", "e", "c", "t", "*", "*", "\n">>
            -> "ARCHITECT"
      [] raw = <<"v", "c">> -> "VC"
      [] raw = <<"\t", "v", "*", "c", "*", " ">> -> "VC"
      [] raw = <<"A", "L", "L">> -> "ALL"
      [] raw = <<"V", "C", ".">> -> "ALL"
      [] raw = <<"*", "*", " ", "S", "C", "O", "U", "T", " ", "*", "*">> -> "ALL"

\* C17: the target the router gives is one of the four labels; for an answer
\* of the model it is SCOUT, ARCHITECT or VC exactly when the answer, trimmed,
\* uppercased and with every '*' removed, is that label, and ALL for the
\* answer ALL and for any other text.
C17_RouterLabel ==
    (router_calls # <<>> /\ router_calls[1].outcome # "raised") =>
        /\ target \in {"SCOUT", "ARCHITECT", "VC", "ALL"}
        /\ router_calls[1].outcome = "answered" =>
              LET raw == router_calls[1].raw
                  norm == RemoveStars(Upper(Strip(raw)))
              IN  /\ target = ExpectedLabel(raw)
                  /\ target = "SCOUT" <=> norm = <<"S", "C", "O", "U", "T">>
                  /\ target = "ARCHITECT"
                        <=> norm = <<"A", "R", "C", "H", "I", "T", "E", "C", "T">>
                  /\ target = "VC" <=> norm = <<"V", "C">>
                  /\ target = "ALL"
                        <=> norm \notin {<<"S", "C", "O", "U", "T">>,
                                         <<"A", "R", "C", "H", "I", "T", "E", "C", "T">>,
                                         <<"V", "C">>}

C17_Witness ==
    /\ router_calls # <<>>
    /\ router_calls[1].raw = <<"\t", "v", "*", "c", "*", " ">>
    /\ target = "VC"
    /\ pc = "persist"

\* The roles whose override token the prompt holds.
Mentioned(p) == {R \in Roles : HasToken(p, R)}

\* The position of the first occurrence of a role's token in the prompt.
TokenAt(p, R) ==
    CHOOSE i \in 1..Len(p) :
        /\ i + Len(Token(R)) - 1 <= Len(p)
        /\ SubSeq(Lower(p), i, i + Len(Token(R)) - 1) = Token(R)
        /\ \A j \in 1..(i - 1) :
              j + Len(Token(R)) - 1 > Len(p)
              \/ SubSeq(Lower(p), j, j + Len(Token(R)) - 1) # Token(R)

\* The role the fixed precedence Scout, Architect, VC gives among those
\* mentioned.
Preferred(p) ==
    CHOOSE R \in Mentioned(p) : \A Q \in Mentioned(p) : Q = R \/ Q \notin Before(R)

C18_MultiToken ==
    (prompt # <<>> /\ Cardinality(Mentioned(prompt)) > 1) =>
        /\ target = Preferred(prompt)
        /\ router_calls = <<>>
        /\ Len(calls) <= 1
        /\ \A i \in 1..Len(calls) : calls[i].name = target
        /\ pc \in {"persist", "aborted"} => Len(calls) = 1

\* C18: a turn whose prompt holds the override tokens of more than one role
\* has the target the precedence Scout, Architect, VC gives, wherever the
\* tokens stand in the prompt; the router is not invoked, and the turn ends
\* after the call of exactly one director, the target's.
C18_Precedence ==
    /\ []C18_MultiToken
    /\ [][ (Cardinality(Mentioned(prompt)) > 1 /\ pc = "persist" /\ Ready') =>
              /\ Names(calls) = <<Preferred(prompt)>>
              /\ Len(responses) = 1
              /\ router_calls = <<>> ]_vars

C18_Witness ==
    /\ prompt = P_VCScout
    /\ TokenAt(prompt, "VC") < TokenAt(prompt, "SCOUT")
    /\ target = "SCOUT"
    /\ pc = "persist"
    /\ Names(calls) = <<"SCOUT">>
    /\ router_calls = <<>>

\* The usable models of the catalog list_models() returned, in its order.
Usable == Available(listing.models)

\* The positions of the priority list whose entry is a usable model of the
\* catalog.
PriorityHits == {i \in 1..Len(Priority) : \E k \in 1..Len(Usable) : Usable[k] = Priority[i]}

\* C19: once the sidebar of the first run is drawn: when the catalog call
\* returned usable models, they are the selectable list, and the default is
\* the priority list's first entry among them, or their first when no priority
\* entry is among them; when the catalog call raised or returned no usable
\* model, the selectable list is the single identifier
\* "models/gemini-1.5-flash" and so is the default; in every case the default
\* is a member of the selectable list, and it is the model selected.
C19_DefaultModel ==
    pc = "idle" =>
        /\ (listing.outcome = "ok" /\ Usable # <<>>) =>
              /\ vc_options = Usable
              /\ PriorityHits # {} =>
                    \E i \in PriorityHits :
                        /\ default_vc = Priority[i]
                        /\ \A j \in PriorityHits : i <= j
              /\ PriorityHits = {} => default_vc = Usable[1]
        /\ (listing.outcome = "raised" \/ (listing.outcome = "ok" /\ Usable = <<>>)) =>
              /\ vc_options = <<"models/gemini-1.5-flash">>
              /\ default_vc = "models/gemini-1.5-flash"
        /\ \E k \in 1..Len(vc_options) : vc_options[k] = default_vc
        /\ vc_options[def_idx + 1] = default_vc
        /\ selected_vc_model = default_vc

C19_Witness ==
    /\ pc = "idle"
    /\ listing.outcome = "ok"
    /\ Usable = <<"models/gemini-1.5-pro", "models/gemini-1.5-pro-latest">>
    /\ default_vc = "models/gemini-1.5-pro-latest"
    /\ def_idx = 1
    /\ "VC_CLIENT" \in clients
====
